---- MODULE Spec2Model ----
(***************************************************************************)
(* Crossword CSP solver (src/generate.py, class CrosswordCreator):         *)
(* node consistency, AC-3 and heuristic backtracking search.               *)
(*                                                                         *)
(* Words are sequences of one-letter strings; Python's 0-based index k of  *)
(* a word is position k+1 of the sequence.  Python sets iterate in an      *)
(* order that depends on the hash seed, so every place where the code      *)
(* iterates a set and the order matters is a nondeterministic choice.      *)
(***************************************************************************)
EXTENDS Integers, Sequences, FiniteSets, TLC

VARIABLES variables, words, domains, pc, pending, queue, arc, revised,
          ac3_result, stack, arg, retval, result, fault, runs, prev

vars == <<variables, words, domains, pc, pending, queue, arc, revised,
          ac3_result, stack, arg, retval, result, fault, runs, prev>>

(* ---------------- bounds ---------------- *)
MaxGrid == 6
MaxDict == 4
MaxRuns == 2
MaxArcs == 2

(* ---------------- dictionary ---------------- *)
cat == <<"c", "a", "t">>
car == <<"c", "a", "r">>
art == <<"a", "r", "t">>
tar == <<"t", "a", "r">>
rat == <<"r", "a", "t">>
at == <<"a", "t">>
to == <<"t", "o">>

Universe == {cat, car, art, tar, rat, at, to}

Dictionaries == {d \in SUBSET Universe : Cardinality(d) <= MaxDict}

(* ---------------- puzzle model (crossword.Variable / Crossword) -------- *)
Variable(i, j, direction, length) ==
    [i |-> i, j |-> j, direction |-> direction, length |-> length]

\* Variable.cells: the k-th cell of a slot, k = 0 .. length-1
CellAt(v, k) ==
    <<v.i + (IF v.direction = "down" THEN k ELSE 0),
      v.j + (IF v.direction = "across" THEN k ELSE 0)>>

Cells(v) == {CellAt(v, k) : k \in 0..(v.length - 1)}

\* cells.index(c)
CellIndex(v, c) == CHOOSE k \in 0..(v.length - 1) : CellAt(v, k) = c

\* overlaps holds None for a pair of slots that share no cell
None == <<>>

\* Crossword.overlaps[x, y]: None, or the index pair of the shared cell
overlaps(x, y) ==
    IF Cells(x) \cap Cells(y) = {}
    THEN None
    ELSE LET c == CHOOSE c \in Cells(x) \cap Cells(y) : TRUE
         IN <<CellIndex(x, c), CellIndex(y, c)>>

\* Crossword.neighbors(var)
neighbors(vs, var) == {v \in vs : v # var /\ overlaps(v, var) # None}

\* The grids the model is checked on (each a well-formed structure file).
Grid(g) ==
    CASE g = 1 -> {Variable(0, 0, "across", 3)}
      [] g = 2 -> {Variable(1, 0, "across", 3), Variable(0, 1, "down", 3)}
      [] g = 3 -> {Variable(0, 0, "across", 3), Variable(0, 0, "down", 2),
                   Variable(0, 2, "down", 3)}
      [] g = 4 -> {Variable(0, 0, "across", 2), Variable(2, 0, "across", 3)}
      [] g = 5 -> {Variable(0, 0, "across", 2), Variable(0, 1, "down", 3)}
      [] g = 6 -> {Variable(1, 0, "across", 3), Variable(0, 1, "down", 3),
                   Variable(0, 2, "down", 2)}
      [] OTHER -> {Variable(0, 0, "across", 3), Variable(0, 0, "down", 3),
                   Variable(2, 0, "across", 2)}

Grids == {Grid(g) : g \in 1..MaxGrid}

(* ---------------- helpers ---------------- *)
RECURSIVE Perms(_)
\* every order in which a set can be iterated
Perms(S) ==
    IF S = {} THEN {<<>>}
    ELSE UNION {{<<e>> \o p : p \in Perms(S \ {e})} : e \in S}

\* w[k] in Python raises IndexError when k >= len(w)
Short(w, k) == k >= Len(w)

\* w[k] for a 0-based index k
Letter(w, k) == IF Short(w, k) THEN "IndexError" ELSE w[k + 1]

\* dict(): the empty assignment
EmptyAssignment == [v \in {} |-> <<>>]

\* assignment.copy(); new_assignment[var] = value
Extend(assignment, var, value) ==
    [v \in (DOMAIN assignment) \cup {var} |->
        IF v = var THEN value ELSE assignment[v]]

\* return values of backtrack: None, or an assignment
ReturnNone == [none |-> TRUE, assignment |-> EmptyAssignment]
Return(assignment) == [none |-> FALSE, assignment |-> assignment]

(* ---------------- consistency engine ---------------- *)
\* mutant: the filtered set is computed but never stored back
NodeConsistent_KeepAll(doms, var) == doms[var]

\* mutant: only the words that are too long are removed
NodeConsistent_OnlyLonger(doms, var) ==
    LET to_remove == {word \in doms[var] : Len(word) > var.length}
    IN doms[var] \ to_remove

\* mutant: only the words that are too short are removed
NodeConsistent_OnlyShorter(doms, var) ==
    LET to_remove == {word \in doms[var] : Len(word) < var.length}
    IN doms[var] \ to_remove

\* lines 103-107: the words of var's domain that survive the length filter
NodeConsistent(doms, var) ==
    LET to_remove == {word \in doms[var] : Len(word) # var.length}
    IN doms[var] \ to_remove

\* mutant: the two overlap indices are applied to the wrong words
Supported_Swapped(doms, x, y, xval) ==
    LET i == overlaps(x, y)[1]
        j == overlaps(x, y)[2]
    IN \E yval \in doms[y] :
          ~Short(xval, j) /\ ~Short(yval, i) /\ Letter(xval, j) = Letter(yval, i)

\* mutant: x's overlap index is used for both words
Supported_SameIndex(doms, x, y, xval) ==
    \E overlap \in {overlaps(x, y)} :
       \E yval \in doms[y] :
          /\ ~Short(xval, overlap[1])
          /\ ~Short(yval, overlap[1])
          /\ Letter(xval, overlap[1]) = Letter(yval, overlap[1])

\* lines 123-130: xval has a supporting value in y's domain
Supported(doms, x, y, xval) ==
    \E overlap \in {overlaps(x, y)} :
       \E yval \in doms[y] :
          /\ ~Short(xval, overlap[1])
          /\ ~Short(yval, overlap[2])
          /\ Letter(xval, overlap[1]) = Letter(yval, overlap[2])

\* mutant: the flag is set whether or not a word was removed
Revise_FlagAlways(doms, x, y) ==
    IF overlaps(x, y) = None
    THEN [revised |-> FALSE, domain |-> doms[x]]
    ELSE LET to_remove == {xval \in doms[x] : ~Supported(doms, x, y, xval)}
         IN [revised |-> TRUE, domain |-> doms[x] \ to_remove]

\* mutant: a missing overlap is treated as a constraint nothing satisfies
Revise_NoNoneCheck(doms, x, y) ==
    LET to_remove == IF overlaps(x, y) = None
                     THEN doms[x]
                     ELSE {xval \in doms[x] : ~Supported(doms, x, y, xval)}
    IN IF to_remove # {}
       THEN [revised |-> TRUE, domain |-> doms[x] \ to_remove]
       ELSE [revised |-> FALSE, domain |-> doms[x]]

\* mutant: the words are removed but the flag is never set
Revise_FlagNever(doms, x, y) ==
    IF overlaps(x, y) = None
    THEN [revised |-> FALSE, domain |-> doms[x]]
    ELSE LET to_remove == {xval \in doms[x] : ~Supported(doms, x, y, xval)}
         IN [revised |-> FALSE, domain |-> doms[x] \ to_remove]

\* revise(x, y) without the index faults: the new domain of x and the flag
Revise(doms, x, y) ==
    IF overlaps(x, y) = None
    THEN [revised |-> FALSE, domain |-> doms[x]]
    ELSE LET to_remove == {xval \in doms[x] : ~Supported(doms, x, y, xval)}
         IN IF to_remove # {}
            THEN [revised |-> TRUE, domain |-> doms[x] \ to_remove]
            ELSE [revised |-> FALSE, domain |-> doms[x]]

\* xval[i] (line 128) raises IndexError for certain: a too-short xval is
\* compared with some yval, or an unsupported xval meets a too-short yval
ReviseMustRaise(doms, x, y) ==
    /\ overlaps(x, y) # None
    /\ LET i == overlaps(x, y)[1]
           j == overlaps(x, y)[2]
       IN \E xval \in doms[x] :
             /\ doms[y] # {}
             /\ \/ Short(xval, i)
                \/ /\ \E yval \in doms[y] : Short(yval, j)
                   /\ ~Supported(doms, x, y, xval)

\* yval[j] (line 128) may raise IndexError: a too-short yval is reached when
\* the set iteration yields it before a supporting value
ReviseMayRaise(doms, x, y) ==
    \/ ReviseMustRaise(doms, x, y)
    \/ /\ overlaps(x, y) # None
       /\ doms[x] # {}
       /\ \E yval \in doms[y] : Short(yval, overlaps(x, y)[2])

\* the outcomes "raised" can take in one call of revise
ReviseRaises(doms, x, y) ==
    IF ReviseMustRaise(doms, x, y) THEN {TRUE}
    ELSE IF ReviseMayRaise(doms, x, y) THEN {TRUE, FALSE}
    ELSE {FALSE}

RECURSIVE ArcQueue(_, _)
\* lines 151-154: the queue the nested loops build when the slots are
\* iterated in order xs and the neighbors of each slot x in order ys[x]
ArcQueue(xs, ys) ==
    IF xs = <<>> THEN <<>>
    ELSE [k \in 1..Len(ys[Head(xs)]) |-> <<Head(xs), ys[Head(xs)][k]>>]
         \o ArcQueue(Tail(xs), ys)

\* one iteration order of neighbors(x) for every slot x
NeighborOrders(vs) ==
    {ys \in [vs -> UNION {Perms(neighbors(vs, x)) : x \in vs}] :
        \A x \in vs : ys[x] \in Perms(neighbors(vs, x))}

\* lines 151-154: the initial queues, one per iteration order of the sets
AllArcs(vs) == {ArcQueue(xs, ys) : xs \in Perms(vs), ys \in NeighborOrders(vs)}

\* mutant: the oldest arc is read but left in the queue
QueuePop_Peek(q) == q

\* lines 148-149: the arc lists ac3(arcs) can be called with, any ordered
\* pairs of distinct slots
ArcLists(vs) ==
    LET pairs == {p \in vs \X vs : p[1] # p[2]}
    IN UNION {[1..n -> pairs] : n \in 0..MaxArcs}

\* line 157: queue.pop(0) leaves the queue without its oldest arc
QueuePop(q) == Tail(q)

\* mutant: the arcs are appended in the wrong direction, (x, z)
Requeued_Reversed(vs, x, y) ==
    {[k \in 1..Len(zs) |-> <<x, zs[k]>>] : zs \in Perms(neighbors(vs, x) \ {y})}

\* mutant: the neighbor y that x was revised against is enqueued as well
Requeued_NoExclude(vs, x, y) ==
    {[k \in 1..Len(zs) |-> <<zs[k], x>>] : zs \in Perms(neighbors(vs, x))}

\* lines 163-164: the arcs (z, x) appended after x was narrowed, in one of
\* the iteration orders of neighbors(x) - {y}
Requeued(vs, x, y) ==
    {[k \in 1..Len(zs) |-> <<zs[k], x>>] : zs \in Perms(neighbors(vs, x) \ {y})}

(* ---------------- search engine ---------------- *)
\* mutant: the comparison never holds for an assignment of the slots
assignment_complete_OffByOne(vs, assignment) ==
    Cardinality(DOMAIN assignment) > Cardinality(vs)

\* line 171
assignment_complete(vs, assignment) ==
    Cardinality(DOMAIN assignment) = Cardinality(vs)

\* mutant: the uniqueness check is missing
consistent_NoDistinct(vs, assignment) ==
    /\ \A var \in DOMAIN assignment : Len(assignment[var]) = var.length
    /\ \A var \in DOMAIN assignment :
          \A neighbor \in neighbors(vs, var) :
             (neighbor \in DOMAIN assignment /\ overlaps(var, neighbor) # None) =>
                Letter(assignment[var], overlaps(var, neighbor)[1])
                   = Letter(assignment[neighbor], overlaps(var, neighbor)[2])

\* lines 182-202
consistent(vs, assignment) ==
    /\ \A var \in DOMAIN assignment : Len(assignment[var]) = var.length
    /\ \A v1, v2 \in DOMAIN assignment : v1 # v2 => assignment[v1] # assignment[v2]
    /\ \A var \in DOMAIN assignment :
          \A neighbor \in neighbors(vs, var) :
             (neighbor \in DOMAIN assignment /\ overlaps(var, neighbor) # None) =>
                Letter(assignment[var], overlaps(var, neighbor)[1])
                   = Letter(assignment[neighbor], overlaps(var, neighbor)[2])

\* mutant: the test is inverted, only the assigned neighbors are counted
conflicts_count_SkipsUnassigned(vs, doms, var, assignment, val) ==
    LET all_nb == {nb \in neighbors(vs, var) :
                      nb \in DOMAIN assignment /\ overlaps(var, nb) # None}
    IN Cardinality({p \in all_nb \X UNION {doms[nb] : nb \in all_nb} :
                       /\ p[2] \in doms[p[1]]
                       /\ Letter(val, overlaps(var, p[1])[1])
                             # Letter(p[2], overlaps(var, p[1])[2])})

\* lines 210-224
conflicts_count(vs, doms, var, assignment, val) ==
    LET unassigned_nb == {nb \in neighbors(vs, var) :
                             nb \notin DOMAIN assignment /\ overlaps(var, nb) # None}
    IN Cardinality({p \in unassigned_nb \X UNION {doms[nb] : nb \in unassigned_nb} :
                       /\ p[2] \in doms[p[1]]
                       /\ Letter(val, overlaps(var, p[1])[1])
                             # Letter(p[2], overlaps(var, p[1])[2])})

\* line 222 raises IndexError on a too-short word
OrderRaises(vs, doms, var, assignment) ==
    \E val \in doms[var] :
       \E nb \in neighbors(vs, var) :
          /\ nb \notin DOMAIN assignment
          /\ overlaps(var, nb) # None
          /\ \E nb_val \in doms[nb] :
                Short(val, overlaps(var, nb)[1]) \/ Short(nb_val, overlaps(var, nb)[2])

\* line 227: sorted() is stable, so equal keys keep the set's iteration
\* order; every key-sorted order of the domain is a possible result
order_domain_values(vs, doms, var, assignment) ==
    {p \in Perms(doms[var]) :
        \A a, b \in 1..Len(p) :
           a < b => conflicts_count(vs, doms, var, assignment, p[a])
                       <= conflicts_count(vs, doms, var, assignment, p[b])}

\* mutant: the degree is not negated, so ties go to the fewest neighbors
KeyLess_DegreeAscending(vs, doms, a, b) ==
    \/ Cardinality(doms[a]) < Cardinality(doms[b])
    \/ /\ Cardinality(doms[a]) = Cardinality(doms[b])
       /\ Cardinality(neighbors(vs, a)) < Cardinality(neighbors(vs, b))

\* line 242: the key (domain size, -degree), compared lexicographically
KeyLess(vs, doms, a, b) ==
    \/ Cardinality(doms[a]) < Cardinality(doms[b])
    \/ /\ Cardinality(doms[a]) = Cardinality(doms[b])
       /\ -Cardinality(neighbors(vs, a)) < -Cardinality(neighbors(vs, b))

\* lines 237-243: min() returns the first minimal element of the list, so
\* every unassigned slot of minimal key is a possible result
select_unassigned_variable(vs, doms, assignment) ==
    LET unassigned == {v \in vs : v \notin DOMAIN assignment}
    IN {var \in unassigned : \A other \in unassigned : ~KeyLess(vs, doms, other, var)}

(* ---------------- the solver as a state machine ---------------- *)
\* __init__ (lines 12-16) followed by the call of solve()
Construct(vs, ws) ==
    /\ variables = vs
    /\ words = ws
    /\ domains = [var \in vs |-> ws]
    /\ pc = "node"
    /\ pending = vs
    /\ queue = <<>>
    /\ arc = <<>>
    /\ revised = FALSE
    /\ ac3_result = "pending"
    /\ stack = <<>>
    /\ arg = EmptyAssignment
    /\ retval = ReturnNone
    /\ result = ReturnNone
    /\ fault = "none"

Init ==
    /\ \E vs \in Grids : \E ws \in Dictionaries : Construct(vs, ws)
    /\ runs = 1
    /\ prev = ReturnNone

\* one iteration of the loop of enforce_node_consistency (lines 102-107);
\* after the last one solve() goes on to ac3()
EnforceNodeConsistency ==
    /\ pc = "node"
    /\ \E var \in pending :
          /\ domains' = [domains EXCEPT ![var] = NodeConsistent(domains, var)]
          /\ pending' = pending \ {var}
          /\ pc' = IF pending \ {var} = {} THEN "ac3_init" ELSE "node"
    /\ UNCHANGED <<variables, words, queue, arc, revised, ac3_result, stack,
                   arg, retval, result, fault, runs, prev>>

\* ac3(arcs=None), lines 148-154: seed the queue with all arcs
AC3Init ==
    /\ pc = "ac3_init"
    /\ \E q \in AllArcs(variables) : queue' = q
    /\ pc' = "ac3"
    /\ UNCHANGED <<variables, words, domains, pending, arc, revised, ac3_result,
                   stack, arg, retval, result, fault, runs, prev>>

\* ac3(arcs) with an explicit arc list, lines 148-149
AC3InitArcs ==
    /\ pc = "ac3_init"
    /\ \E arcs \in ArcLists(variables) : queue' = arcs
    /\ pc' = "ac3"
    /\ UNCHANGED <<variables, words, domains, pending, arc, revised, ac3_result,
                   stack, arg, retval, result, fault, runs, prev>>

\* mutant: the loop goes on after a domain was narrowed to empty
AC3Step_NoEarlyReturn ==
    /\ pc = "ac3"
    /\ queue # <<>>
    /\ LET x == Head(queue)[1]
           y == Head(queue)[2]
       IN \E raised \in ReviseRaises(domains, x, y), r \in {Revise(domains, x, y)} :
             /\ arc' = Head(queue)
             /\ IF raised
                THEN /\ fault' = "IndexError"
                     /\ pc' = "fault"
                     /\ queue' = QueuePop(queue)
                     /\ UNCHANGED <<domains, revised, ac3_result>>
                ELSE /\ fault' = fault
                     /\ revised' = r.revised
                     /\ domains' = [domains EXCEPT ![x] = r.domain]
                     /\ ac3_result' = IF r.revised /\ r.domain = {}
                                      THEN "False" ELSE ac3_result
                     /\ pc' = "ac3"
                     /\ IF r.revised
                        THEN \E zs \in Requeued(variables, x, y) :
                                queue' = QueuePop(queue) \o zs
                        ELSE queue' = QueuePop(queue)
    /\ UNCHANGED <<variables, words, pending, stack, arg, retval, result,
                   runs, prev>>

\* one iteration of the while loop of ac3 (lines 156-164)
AC3Step ==
    /\ pc = "ac3"
    /\ queue # <<>>
    /\ LET x == Head(queue)[1]
           y == Head(queue)[2]
       IN \E raised \in ReviseRaises(domains, x, y), r \in {Revise(domains, x, y)} :
             /\ arc' = Head(queue)
             /\ IF raised
                THEN /\ fault' = "IndexError"
                     /\ pc' = "fault"
                     /\ queue' = QueuePop(queue)
                     /\ UNCHANGED <<domains, revised, ac3_result>>
                ELSE /\ fault' = fault
                     /\ revised' = r.revised
                     /\ domains' = [domains EXCEPT ![x] = r.domain]
                     /\ IF r.revised /\ r.domain = {}
                        THEN /\ ac3_result' = "False"
                             /\ pc' = "ac3_done"
                             /\ queue' = QueuePop(queue)
                        ELSE /\ ac3_result' = ac3_result
                             /\ pc' = "ac3"
                             /\ IF r.revised
                                THEN \E zs \in Requeued(variables, x, y) :
                                        queue' = QueuePop(queue) \o zs
                                ELSE queue' = QueuePop(queue)
    /\ UNCHANGED <<variables, words, pending, stack, arg, retval, result,
                   runs, prev>>

\* the while loop of ac3 ends on an empty queue (lines 156, 165)
AC3Return ==
    /\ pc = "ac3"
    /\ queue = <<>>
    /\ ac3_result' = "True"
    /\ pc' = "ac3_done"
    /\ UNCHANGED <<variables, words, domains, pending, queue, arc, revised,
                   stack, arg, retval, result, fault, runs, prev>>

\* solve(), lines 93-94: the value of ac3() is dropped and backtrack(dict())
\* is called
SolveBacktrack ==
    /\ pc = "ac3_done"
    /\ arg' = EmptyAssignment
    /\ pc' = "bt_call"
    /\ UNCHANGED <<variables, words, domains, pending, queue, arc, revised,
                   ac3_result, stack, retval, result, fault, runs, prev>>

\* entry of backtrack(arg), lines 255-260: return a complete assignment, or
\* select a slot, order its values and enter the for loop
BacktrackCall ==
    /\ pc = "bt_call"
    /\ IF assignment_complete(variables, arg)
       THEN /\ retval' = Return(arg)
            /\ pc' = "bt_return"
            /\ UNCHANGED <<stack, fault>>
       ELSE IF select_unassigned_variable(variables, domains, arg) = {}
       THEN /\ fault' = "ValueError"
            /\ pc' = "fault"
            /\ UNCHANGED <<stack, retval>>
       ELSE \E var \in select_unassigned_variable(variables, domains, arg) :
               IF OrderRaises(variables, domains, var, arg)
               THEN /\ fault' = "IndexError"
                    /\ pc' = "fault"
                    /\ UNCHANGED <<stack, retval>>
               ELSE \E values \in order_domain_values(variables, domains, var, arg) :
                       /\ stack' = Append(stack, [assignment |-> arg, var |-> var,
                                                  values |-> values])
                       /\ pc' = "bt_loop"
                       /\ UNCHANGED <<retval, fault>>
    /\ UNCHANGED <<variables, words, domains, pending, queue, arc, revised,
                   ac3_result, arg, result, runs, prev>>

\* mutant: the tried value becomes the only word left in the slot's domain
BacktrackTry_Prune ==
    /\ pc = "bt_loop"
    /\ stack # <<>>
    /\ LET frame == stack[Len(stack)]
       IN /\ frame.values # <<>>
          /\ LET new_assignment == Extend(frame.assignment, frame.var,
                                          Head(frame.values))
             IN /\ stack' = [stack EXCEPT ![Len(stack)].values = Tail(@)]
                /\ domains' = [domains EXCEPT ![frame.var] = {Head(frame.values)}]
                /\ IF consistent(variables, new_assignment)
                   THEN arg' = new_assignment /\ pc' = "bt_call"
                   ELSE arg' = arg /\ pc' = "bt_loop"
    /\ UNCHANGED <<variables, words, pending, queue, arc, revised,
                   ac3_result, retval, result, fault, runs, prev>>

\* mutant: the value is written into the caller's assignment, no copy is made
BacktrackTry_NoCopy ==
    /\ pc = "bt_loop"
    /\ stack # <<>>
    /\ LET frame == stack[Len(stack)]
       IN /\ frame.values # <<>>
          /\ LET new_assignment == Extend(frame.assignment, frame.var,
                                          Head(frame.values))
             IN /\ stack' = [stack EXCEPT ![Len(stack)].values = Tail(@),
                                          ![Len(stack)].assignment = new_assignment]
                /\ IF consistent(variables, new_assignment)
                   THEN arg' = new_assignment /\ pc' = "bt_call"
                   ELSE arg' = arg /\ pc' = "bt_loop"
    /\ UNCHANGED <<variables, words, domains, pending, queue, arc, revised,
                   ac3_result, retval, result, fault, runs, prev>>

\* one iteration of the for loop of backtrack (lines 260-268): extend a copy
\* of the assignment with the next value and recurse if it is consistent
BacktrackTry ==
    /\ pc = "bt_loop"
    /\ stack # <<>>
    /\ LET frame == stack[Len(stack)]
       IN /\ frame.values # <<>>
          /\ LET new_assignment == Extend(frame.assignment, frame.var,
                                          Head(frame.values))
             IN /\ stack' = [stack EXCEPT ![Len(stack)].values = Tail(@)]
                /\ IF consistent(variables, new_assignment)
                   THEN arg' = new_assignment /\ pc' = "bt_call"
                   ELSE arg' = arg /\ pc' = "bt_loop"
    /\ UNCHANGED <<variables, words, domains, pending, queue, arc, revised,
                   ac3_result, retval, result, fault, runs, prev>>

\* the for loop of backtrack is exhausted: return None (line 272)
BacktrackExhausted ==
    /\ pc = "bt_loop"
    /\ stack # <<>>
    /\ stack[Len(stack)].values = <<>>
    /\ stack' = SubSeq(stack, 1, Len(stack) - 1)
    /\ retval' = ReturnNone
    /\ pc' = "bt_return"
    /\ UNCHANGED <<variables, words, domains, pending, queue, arc, revised,
                   ac3_result, arg, result, fault, runs, prev>>

\* a call of backtrack returns to its caller: to solve() (line 94), or to
\* the for loop of the enclosing call (lines 268-270), which returns a
\* non-None result at once and otherwise goes on with the next value
BacktrackReturn ==
    /\ pc = "bt_return"
    /\ IF stack = <<>>
       THEN /\ result' = retval
            /\ pc' = "done"
            /\ UNCHANGED stack
       ELSE IF ~retval.none
       THEN /\ stack' = SubSeq(stack, 1, Len(stack) - 1)
            /\ pc' = "bt_return"
            /\ UNCHANGED result
       ELSE /\ pc' = "bt_loop"
            /\ UNCHANGED <<stack, result>>
    /\ UNCHANGED <<variables, words, domains, pending, queue, arc, revised,
                   ac3_result, arg, retval, fault, runs, prev>>

Next ==
    \/ EnforceNodeConsistency
    \/ AC3Init
    \/ AC3Step
    \/ AC3Return
    \/ SolveBacktrack
    \/ BacktrackCall
    \/ BacktrackTry
    \/ BacktrackExhausted
    \/ BacktrackReturn

Spec == Init /\ [][Next]_vars

\* main(), lines 288-290: the same structure and word list are loaded and
\* solved again by a fresh CrosswordCreator
Rerun ==
    /\ pc = "done"
    /\ runs < MaxRuns
    /\ runs' = runs + 1
    /\ prev' = result
    /\ domains' = [var \in variables |-> words]
    /\ pc' = "node"
    /\ pending' = variables
    /\ queue' = <<>>
    /\ arc' = <<>>
    /\ revised' = FALSE
    /\ ac3_result' = "pending"
    /\ stack' = <<>>
    /\ arg' = EmptyAssignment
    /\ retval' = ReturnNone
    /\ result' = ReturnNone
    /\ fault' = "none"
    /\ UNCHANGED <<variables, words>>

NextRepeat == Next \/ Rerun

SpecRepeat == Init /\ [][NextRepeat]_vars

\* solve() up to the return of ac3() (lines 92-93)
NextAC3 ==
    \/ EnforceNodeConsistency
    \/ AC3Init
    \/ AC3Step
    \/ AC3Return

\* the interpreter keeps running the loops: an enabled step is eventually taken
FairAC3 == Init /\ [][NextAC3]_vars /\ WF_vars(NextAC3)

\* node consistency followed by ac3(arcs) on an explicit arc list
NextArcs ==
    \/ EnforceNodeConsistency
    \/ AC3InitArcs
    \/ AC3Step
    \/ AC3Return

SpecArcs == Init /\ [][NextArcs]_vars

(* ---------------- properties ---------------- *)
\* the complete consistent assignments of a puzzle over a dictionary
Solutions(vs, ws) ==
    {a \in [vs -> ws] :
        /\ \A v \in vs : Len(a[v]) = v.length
        /\ \A v1, v2 \in vs : v1 # v2 => a[v1] # a[v2]
        /\ \A x \in vs : \A y \in neighbors(vs, x) :
              a[x][overlaps(x, y)[1] + 1] = a[y][overlaps(x, y)[2] + 1]}

\* the domains left by node consistency alone
LengthFiltered == [v \in variables |-> {w \in words : Len(w) = v.length}]

InBacktrack == pc \in {"bt_call", "bt_loop", "bt_return"}

\* C1: an assignment returned by solve() gives every slot one word of the
\* slot's length, uses no word twice and agrees on every overlap; two
\* overlapping slots with a one-word dictionary never get an assignment.
C1_SolutionValid ==
    (pc = "done" /\ ~result.none) =>
        /\ DOMAIN result.assignment = variables
        /\ \A v \in variables : Len(result.assignment[v]) = v.length
        /\ \A v1, v2 \in variables :
              v1 # v2 => result.assignment[v1] # result.assignment[v2]
        /\ \A x \in variables : \A y \in neighbors(variables, x) :
              result.assignment[x][overlaps(x, y)[1] + 1]
                 = result.assignment[y][overlaps(x, y)[2] + 1]
        /\ ~(Cardinality(words) = 1
               /\ \E x \in variables : neighbors(variables, x) # {})

C1_Witness ==
    /\ pc = "done"
    /\ ~result.none
    /\ \E x \in variables : neighbors(variables, x) # {}

\* C2: solve() returns None only when the puzzle has no complete consistent
\* assignment, whichever way ties are broken.
C2_Complete ==
    (pc = "done" /\ Solutions(variables, words) # {}) => ~result.none

C2_Witness ==
    /\ pc = "done"
    /\ ~result.none
    /\ Cardinality(variables) = 3
    /\ result.assignment \in Solutions(variables, words)

\* C3: once ac3() has returned False, backtrack is never invoked.
C3_BacktrackSkipped == ~(ac3_result = "False" /\ InBacktrack)

\* C4: a repeated solve of the same puzzle and dictionary returns the same
\* result as the first one.
C4_Deterministic == (pc = "done" /\ runs = 2) => result = prev

\* C5: if the dictionary has no word of some slot's length, a domain is
\* empty once node consistency and AC-3 are over, and solve() returns None.
C5_MissingLength ==
    (\E v \in variables : \A w \in words : Len(w) # v.length) =>
        /\ (pc \in {"ac3_done", "bt_call", "bt_loop", "bt_return", "done"}) =>
              \E v \in variables : domains[v] = {}
        /\ pc = "done" => result.none

C5_Witness ==
    /\ pc = "done"
    /\ result.none
    /\ \E v \in variables :
          /\ neighbors(variables, v) = {}
          /\ \A w \in words : Len(w) # v.length
          /\ domains[v] = {}

\* C6: when enforce_node_consistency returns, each slot's domain is exactly
\* the words it had before the call (the dictionary) that have its length.
C6_NodeConsistency ==
    pc = "ac3_init" =>
        \A v \in variables :
           /\ \A w \in domains[v] : Len(w) = v.length
           /\ \A w \in words : Len(w) = v.length => w \in domains[v]
           /\ domains[v] \subseteq words

C6_Witness ==
    /\ pc = "ac3_init"
    /\ \E v \in variables : domains[v] # {} /\ domains[v] # words

\* C7: after ac3() returned True every word of every slot has a supporting
\* word in each neighbor's domain.
C7_ArcConsistent ==
    (pc = "ac3_done" /\ ac3_result = "True") =>
        \A x \in variables : \A y \in neighbors(variables, x) :
           \A wx \in domains[x] : \E wy \in domains[y] :
              wx[overlaps(x, y)[1] + 1] = wy[overlaps(x, y)[2] + 1]

C7_Witness ==
    /\ pc = "ac3_done"
    /\ ac3_result = "True"
    /\ \E x \in variables :
          /\ neighbors(variables, x) # {}
          /\ domains[x] # LengthFiltered[x]

\* C8: no step of solve() raises: it ends with an assignment or with None.
C8_NoFault ==
    /\ fault = "none"
    /\ pc # "fault"
    /\ pc = "done" => (result.none \/ DOMAIN result.assignment = variables)

C8_Witness ==
    /\ pc = "done"
    /\ result.none
    /\ ac3_result = "False"
    /\ \E v \in variables : domains[v] = {}

\* C9: the AC-3 loop terminates: a run that is in the loop leaves it.
C9_AC3Terminates == (pc = "ac3") ~> (pc = "ac3_done")

C9_Witness ==
    /\ pc = "ac3_done"
    /\ ac3_result = "True"
    /\ \E x \in variables :
          /\ Cardinality(neighbors(variables, x)) >= 2
          /\ domains[x] # LengthFiltered[x]
          /\ domains[x] # {}

\* C10: revise(x, y) with an overlap removes from x's domain exactly the
\* words without a supporting word in y's domain, and returns true iff it
\* removed a word.
C10_ReviseExact ==
    [][(pc = "ac3" /\ queue # <<>>) =>
         LET x == Head(queue)[1]
             y == Head(queue)[2]
             i == overlaps(x, y)[1]
             j == overlaps(x, y)[2]
         IN /\ domains'[x] = {wx \in domains[x] :
                                \E wy \in domains[y] : wy[j + 1] = wx[i + 1]}
            /\ revised' = (domains'[x] # domains[x])]_vars

C10_Witness ==
    /\ pc = "ac3"
    /\ revised
    /\ domains[arc[1]] # {}
    /\ domains[arc[1]] # LengthFiltered[arc[1]]

\* C11: revise(x, y) changes no domain but x's, and when x and y have no
\* overlap it returns false and changes no domain at all.
C11_ReviseFrame ==
    [][(pc = "ac3" /\ queue # <<>>) =>
         LET x == Head(queue)[1]
             y == Head(queue)[2]
         IN /\ \A v \in variables \ {x} : domains'[v] = domains[v]
            /\ overlaps(x, y) = None => (~revised' /\ domains' = domains)]_vars

C11_Witness ==
    /\ pc = "ac3"
    /\ arc # <<>>
    /\ overlaps(arc[1], arc[2]) = None
    /\ ~revised
    /\ domains[arc[1]] # {}
    /\ \E v \in variables : domains[v] # LengthFiltered[v]

\* C12 as stated: whenever ac3() has returned True, every slot's domain is
\* non-empty.
C12_TrueNonEmpty ==
    (pc = "ac3_done" /\ ac3_result = "True") =>
        \A v \in variables : domains[v] # {}

\* C12 amended: ac3() returns False only with an empty domain, and when it
\* returns True every domain that was non-empty when ac3() was invoked (the
\* domains left by node consistency) is still non-empty.
C12_TrueKeepsNonEmpty ==
    /\ (pc = "ac3_done" /\ ac3_result = "True") =>
          \A v \in variables : LengthFiltered[v] # {} => domains[v] # {}
    /\ (pc = "ac3_done" /\ ac3_result = "False") =>
          \E v \in variables : domains[v] = {}

C12_Witness ==
    /\ pc = "ac3_done"
    /\ ac3_result = "True"
    /\ \E v \in variables : domains[v] = {}
    /\ \E v \in variables : domains[v] # {}

\* C13: when revise narrows x's domain to empty, ac3 returns False at once:
\* nothing is enqueued for that revision, and afterwards no arc is popped or
\* revised and no domain changes.
C13_FailImmediately ==
    [][/\ (/\ pc = "ac3"
           /\ queue # <<>>
           /\ domains[Head(queue)[1]] # {}
           /\ domains'[Head(queue)[1]] = {}) =>
              (ac3_result' = "False" /\ pc' = "ac3_done" /\ queue' = Tail(queue))
       /\ ac3_result = "False" =>
              /\ pc # "ac3"
              /\ domains' = domains
              /\ queue' = queue
              /\ arc' = arc
              /\ revised' = revised
              /\ ac3_result' = "False"]_vars

C13_Witness ==
    /\ ac3_result = "False"
    /\ InBacktrack
    /\ queue # <<>>
    /\ domains[arc[1]] = {}
    /\ \E v \in variables : domains[v] # {}

\* C14: ac3 pops the oldest arc (x, y); if revise narrowed x's domain to a
\* non-empty set, the queue becomes the remaining arcs followed by exactly
\* one arc (z, x) per neighbor z of x other than y; if revise returned
\* false, the queue is just the remaining arcs.  Duplicates stay.
C14_FifoRequeue ==
    [][(pc = "ac3" /\ queue # <<>>) =>
         LET x == Head(queue)[1]
             y == Head(queue)[2]
             others == {z \in variables :
                          z # x /\ z # y /\ Cells(z) \cap Cells(x) # {}}
             kept == Len(queue) - 1
         IN /\ arc' = Head(queue)
            /\ SubSeq(queue', 1, kept) = Tail(queue)
            /\ IF revised' /\ domains'[x] # {}
               THEN /\ Len(queue') = kept + Cardinality(others)
                    /\ {queue'[k] : k \in (kept + 1)..Len(queue')}
                          = {<<z, x>> : z \in others}
               ELSE Len(queue') = kept]_vars

C14_Witness ==
    /\ pc = "ac3"
    /\ revised
    /\ Len(queue) >= 2
    /\ queue[Len(queue)][2] = arc[1]
    /\ \E k \in 1..(Len(queue) - 1) : queue[k] = queue[Len(queue)]

\* C15: in every state after node consistency has finished, through AC-3
\* and backtracking, every word of a domain has the slot's length and each
\* domain is a subset of what it was in the state before.
C15_DomainInvariant ==
    [][pc' # "node" =>
         \A v \in variables :
            /\ \A w \in domains'[v] : Len(w) = v.length
            /\ domains'[v] \subseteq domains[v]]_vars

C15_Witness ==
    /\ pc = "bt_loop"
    /\ Len(stack) >= 2
    /\ \E v \in variables :
          /\ domains[v] # {}
          /\ domains[v] # LengthFiltered[v]
          /\ LengthFiltered[v] # words

\* C16: from the call backtrack({}) until it returns, no domain changes,
\* the domains of assigned slots included.
C16_NoRepruning ==
    [][(pc = "ac3_done" \/ InBacktrack) => domains' = domains]_vars

C16_Witness ==
    /\ pc = "bt_return"
    /\ ~retval.none
    /\ \E v \in DOMAIN retval.assignment : Cardinality(domains[v]) >= 2

\* C17: a trial builds a new assignment, the caller's plus the one entry
\* slot -> value, and no step changes the assignment of a call in progress:
\* after a recursive call returned None the caller goes on from the
\* assignment it had before.
C17_CopyOnExtend ==
    [][InBacktrack =>
         /\ \A k \in 1..Len(stack) :
               k <= Len(stack') =>
                  /\ stack'[k].assignment = stack[k].assignment
                  /\ stack'[k].var = stack[k].var
         /\ (pc = "bt_loop" /\ pc' = "bt_call") =>
               LET caller == stack[Len(stack)]
               IN /\ caller.var \notin DOMAIN caller.assignment
                  /\ DOMAIN arg' = (DOMAIN caller.assignment) \cup {caller.var}
                  /\ arg'[caller.var] = Head(caller.values)
                  /\ \A v \in DOMAIN caller.assignment :
                        arg'[v] = caller.assignment[v]
         /\ (pc = "bt_return" /\ pc' = "bt_loop") => stack' = stack]_vars

C17_Witness ==
    /\ pc = "bt_loop"
    /\ stack # <<>>
    /\ retval.none
    /\ LET caller == stack[Len(stack)]
       IN /\ caller.values # <<>>
          /\ caller.assignment # EmptyAssignment
          /\ DOMAIN arg = (DOMAIN caller.assignment) \cup {caller.var}

\* the number of slots that share a cell with v
Degree(v) ==
    Cardinality({u \in variables : u # v /\ Cells(u) \cap Cells(v) # {}})

\* C18: the slot selected for an incomplete assignment is unassigned, has a
\* domain of minimal size among the unassigned slots, and has the most
\* neighbors among the unassigned slots of that size.
C18_SelectMrvDegree ==
    [][(pc = "bt_call" /\ pc' = "bt_loop") =>
         LET selected == stack'[Len(stack')].var
             unassigned == variables \ DOMAIN arg
         IN /\ selected \in unassigned
            /\ \A u \in unassigned :
                  /\ Cardinality(domains[selected]) <= Cardinality(domains[u])
                  /\ Cardinality(domains[u]) = Cardinality(domains[selected])
                        => Degree(u) <= Degree(selected)]_vars

C18_Witness ==
    /\ pc = "bt_loop"
    /\ stack # <<>>
    /\ LET call == stack[Len(stack)]
       IN /\ \E u \in variables \ ((DOMAIN call.assignment) \cup {call.var}) :
                /\ Cardinality(domains[u]) = Cardinality(domains[call.var])
                /\ Degree(u) < Degree(call.var)
          /\ \E u \in variables \ ((DOMAIN call.assignment) \cup {call.var}) :
                Cardinality(domains[u]) > Cardinality(domains[call.var])

\* the conflict score of word w for slot var: the pairs (n, wn) of an
\* unassigned neighbor n and a word wn of its domain whose overlap letter
\* differs from w's
Score(var, assigned, w) ==
    Cardinality(UNION {
        {<<n, wn>> : wn \in {u \in domains[n] :
                               u[CellIndex(n, CHOOSE c \in Cells(n) \cap Cells(var) : TRUE) + 1]
                                 # w[CellIndex(var, CHOOSE c \in Cells(n) \cap Cells(var) : TRUE) + 1]}}
        : n \in {m \in variables \ (assigned \cup {var}) : Cells(m) \cap Cells(var) # {}}})

\* C19: the values tried for the selected slot are its domain, every word
\* once, in ascending order of conflict score.
C19_OrderLcv ==
    [][(pc = "bt_call" /\ pc' = "bt_loop") =>
         LET var == stack'[Len(stack')].var
             values == stack'[Len(stack')].values
         IN /\ Len(values) = Cardinality(domains[var])
            /\ {values[k] : k \in 1..Len(values)} = domains[var]
            /\ \A a, b \in 1..Len(values) :
                  a < b => Score(var, DOMAIN arg, values[a])
                              <= Score(var, DOMAIN arg, values[b])]_vars

C19_Witness ==
    /\ pc = "bt_loop"
    /\ stack # <<>>
    /\ LET call == stack[Len(stack)]
       IN /\ Len(call.values) = Cardinality(domains[call.var])
          /\ Len(call.values) >= 2
          /\ \E n \in DOMAIN call.assignment : Cells(n) \cap Cells(call.var) # {}
          /\ Score(call.var, DOMAIN call.assignment, call.values[1])
                < Score(call.var, DOMAIN call.assignment, call.values[Len(call.values)])

\* C20: pruning never discards a solution: every complete consistent
\* assignment of the puzzle keeps each of its words in the slot's domain in
\* every state, so ac3() does not return False on a solvable puzzle.
C20_SolutionsKept ==
    pc \in {"node", "ac3_init", "ac3", "ac3_done"} =>
       \A solutions \in {Solutions(variables, words)} :
          /\ \A a \in solutions : \A v \in variables : a[v] \in domains[v]
          /\ solutions # {} => ac3_result # "False"

C20_Witness ==
    /\ pc = "ac3_done"
    /\ Solutions(variables, words) # {}
    /\ \E v \in variables :
          /\ domains[v] # LengthFiltered[v]
          /\ LengthFiltered[v] # words

====
